---- MODULE Spec2Model ----
(***************************************************************************)
(* Model of the UniFi controller client of src/unifi.py (UnifiPy,          *)
(* UnifiSiteApi, UnifiUsageApi, UnifiDeviceApi) and of the usage report    *)
(* script src/fetch_usage.py.                                              *)
(*                                                                         *)
(* The controller is the environment: every request is answered by a       *)
(* response drawn from Responses (a network failure, or a status with a    *)
(* body and an optional csrf_token cookie).  Python exceptions are         *)
(* outcomes of kind "raise" that name the exception class.                 *)
(***************************************************************************)
EXTENDS Integers, Sequences, FiniteSets, TLC

VARIABLES
    pc,         \* position of the caller: "new","ctor_login","idle","login","list_one","dead"
                \* and, for the all-sites enumeration, "list_sites","list_pool"
    header,     \* session.headers["X-Csrf-Token"]
    jar,        \* session.cookies["csrf_token"]
    loginToken, \* history: cookie value the last successful login() read
    lastOp,     \* name of the operation that ran last (or is running)
    arg,        \* its distinguishing argument
    req,        \* the last request handed to the session
    sent,       \* number of requests the operation has issued
    resp,       \* the last response the session received
    result,     \* outcome of the operation
    hist,       \* outcomes of the attempts of the running retry loop
    outer,      \* all-sites enumeration: attempt number of the outer call
    sitesReqs,  \* all-sites enumeration: requests to /api/self/sites
    sitesFailed,\* all-sites enumeration: some sites request failed
    siteNames,  \* all-sites enumeration: site names of the last sites response
    att,        \* per site: attempts made by the worker's running call
    st,         \* per site: "todo", "ok", "failed"
    got,        \* per site: device list the worker returned
    devReqs,    \* per site: requests to the site's device endpoint in the whole call,
                \* counted as long as none of them has succeeded (0 afterwards)
    everOk,     \* per site: some device request of the whole call succeeded
    devices,    \* device list returned by the enumeration
    printed     \* fetch_usage.py: names printed so far

vars == <<pc, header, jar, loginToken, lastOp, arg, req, sent, resp, result, hist,
          outer, sitesReqs, sitesFailed, siteNames, att, st, got, devReqs, everOk,
          devices, printed>>

sessionVars == <<header, jar, loginToken>>
poolVars == <<outer, sitesReqs, sitesFailed, siteNames, att, st, got, devReqs, everOk>>

----------------------------------------------------------------------------
(* Bounds *)

MaxSites == 2       \* sites the controller reports
MaxDevs == 1        \* devices per site
MaxRecords == 2     \* usage records in one report

----------------------------------------------------------------------------
(* Values *)

NoToken == "none"
Tokens == {"t1", "t2"}
Cookies == Tokens \cup {NoToken}

controller == "https://ctl:8443"
SiteArg == "default"
DeviceArg == "dev1"

Statuses == {200, 201, 500}

\* A response body: json says whether it parses; type is the JSON type of the
\* parsed value; meta and rc describe the envelope of an object; data says
\* whether the object has a "data" member.
NotJson == [json |-> FALSE, type |-> "none", meta |-> "absent", rc |-> "absent", data |-> FALSE]
JsonNull == [json |-> TRUE, type |-> "null", meta |-> "absent", rc |-> "absent", data |-> FALSE]
JsonArray == [json |-> TRUE, type |-> "array", meta |-> "absent", rc |-> "absent", data |-> FALSE]
JsonObject(m, c, d) == [json |-> TRUE, type |-> "object", meta |-> m, rc |-> c, data |-> d]
JsonObjects ==
    {JsonObject("absent", "absent", d) : d \in BOOLEAN}
    \cup {JsonObject("null", "absent", FALSE)}
    \cup {JsonObject("object", c, FALSE) : c \in {"absent", "ok", "error"}}
Bodies == {NotJson, JsonNull, JsonArray} \cup JsonObjects

NetError == [net |-> TRUE, status |-> 0, body |-> NotJson, cookie |-> NoToken]
\* responses that may set the csrf_token cookie, and responses that set none
CookieResponses ==
    {NetError} \cup
    {[net |-> FALSE, status |-> s, body |-> b, cookie |-> c] :
        s \in Statuses, b \in Bodies, c \in Cookies}
Responses == {r \in CookieResponses : r.cookie = NoToken}
NoResp == [net |-> FALSE, status |-> 0, body |-> NotJson, cookie |-> NoToken]

NoData == "nodata"
NoReq == [verb |-> "none", url |-> "", hdr |-> NoToken, k |-> NoData, v |-> NoData]

\* Outcomes of a call
NoResult == [kind |-> "none", ok |-> FALSE, msg |-> "", exc |-> "", body |-> NotJson]
Return(b) == [kind |-> "return", ok |-> FALSE, msg |-> "", exc |-> "", body |-> b]
ReturnNone == [kind |-> "return", ok |-> FALSE, msg |-> "None", exc |-> "", body |-> NotJson]
ReturnResponse == [kind |-> "return", ok |-> FALSE, msg |-> "response", exc |-> "", body |-> NotJson]
ReturnPair(o, m) == [kind |-> "return", ok |-> o, msg |-> m, exc |-> "", body |-> NotJson]
Raise(e) == [kind |-> "raise", ok |-> FALSE, msg |-> "", exc |-> e, body |-> NotJson]

----------------------------------------------------------------------------
(* Endpoints *)

ENDPOINT_LOGIN == "/api/login"
SITES_ENDPOINT == "/api/self/sites"
ENDPOINT(site) == "/api/s/" \o site \o "/stat/device"
CMD_ENDPOINT(site) == "/api/s/" \o site \o "/cmd/devmgr"
SITE_CMD_ENDPOINT(site) == "/api/s/" \o site \o "/cmd/sitemgr"
UPDATE_ENDPOINT(site, dev) == "/api/s/" \o site \o "/rest/device/" \o dev
USAGE_ENDPOINT(site, gran) == "/api/s/" \o site \o "/stat/report/" \o gran \o ".ap"
ADMIN_ENDPOINT == "/api/stat/admin"

----------------------------------------------------------------------------
(* The session (requests.Session as UnifiPy uses it) *)

\* A request issued through the session carries the session's headers.
Request(verb, url, k, v) == [verb |-> verb, url |-> url, hdr |-> header, k |-> k, v |-> v]

\* The session stores the cookies of every response it receives.
JarAfter(r) == IF r.net \/ r.cookie = NoToken THEN jar ELSE r.cookie

\* the status test of get, post, post_no_json_response and put
StatusOk_mut(status) == status \in 200..299
StatusOk(status) == status = 200

\* UnifiPy.get
get(r) ==
    IF r.net THEN Raise("RequestException")
    ELSE IF ~StatusOk(r.status) THEN Raise("UnifiGetException")
    ELSE IF ~r.body.json THEN Raise("UnifiFetchException")
    ELSE Return(r.body)

\* UnifiPy.post
post(r) ==
    IF r.net THEN Raise("RequestException")
    ELSE IF ~StatusOk(r.status) THEN Raise("UnifiPostException")
    ELSE IF ~r.body.json THEN Raise("UnifiFetchException")
    ELSE Return(r.body)

\* UnifiPy.post_no_json_response
post_no_json_response(r) ==
    IF r.net THEN Raise("RequestException")
    ELSE IF ~StatusOk(r.status) THEN Raise("UnifiPostException")
    ELSE ReturnNone

\* UnifiPy.put
put(r) ==
    IF r.net THEN Raise("RequestException")
    ELSE IF ~StatusOk(r.status) THEN Raise("UnifiPostException")
    ELSE IF ~r.body.json THEN Raise("UnifiFetchException")
    ELSE Return(r.body)

\* session.put / session.get called directly: the raw response is returned
raw(r) == IF r.net THEN Raise("RequestException") ELSE ReturnResponse

\* p["data"] on the outcome p of get or post
Subscript_data(p) ==
    IF p.kind = "raise" THEN p
    ELSE IF p.body.type # "object" THEN Raise("TypeError")
    ELSE IF ~p.body.data THEN Raise("KeyError")
    ELSE p

\* j.get("data") on the outcome p of get (get_devices, get_sites)
Get_data(p) ==
    IF p.kind = "raise" THEN p
    ELSE IF p.body.type # "object" THEN Raise("AttributeError")
    ELSE IF ~p.body.data THEN ReturnNone
    ELSE p

----------------------------------------------------------------------------
(* Device commands (UnifiDeviceApi) *)

Problem == "Problem communicating with the controller"
Unknown == "Unknown Error"

\* the try block shared by restart, set_uplinks, scan, move, upgrade_firmware:
\*   "meta" in r and "rc" in r["meta"] and r["meta"]["rc"] == "ok"
Command(r) ==
    LET p == post(r) IN
    IF p.kind = "raise"
    THEN IF p.exc = "UnifiPostException" THEN ReturnPair(FALSE, Problem) ELSE p
    ELSE IF p.body.type = "null" THEN Raise("TypeError")
    ELSE IF p.body.type = "array" \/ p.body.meta = "absent" THEN ReturnPair(FALSE, Unknown)
    ELSE IF p.body.meta = "null" THEN Raise("TypeError")
    ELSE IF p.body.rc = "absent" THEN ReturnPair(FALSE, Unknown)
    ELSE IF p.body.rc = "ok" THEN ReturnPair(TRUE, "")
    ELSE ReturnPair(FALSE, Unknown)

\* UnifiDeviceApi.update:  r.get("meta").get("rc") == "ok"
update(r) ==
    LET p == put(r) IN
    IF p.kind = "raise"
    THEN IF p.exc = "UnifiPostException" THEN ReturnPair(FALSE, Problem) ELSE p
    ELSE IF p.body.type # "object" THEN Raise("AttributeError")
    ELSE IF p.body.meta # "object" THEN Raise("AttributeError")
    ELSE IF p.body.rc = "ok" THEN ReturnPair(TRUE, "")
    ELSE ReturnPair(FALSE, Unknown)

\* command name, endpoint and "cmd" member of the body
Commands == {"restart", "set_uplinks", "scan", "move", "upgrade_firmware"}
CommandEndpoint(c) == IF c = "move" THEN SITE_CMD_ENDPOINT(SiteArg) ELSE CMD_ENDPOINT(SiteArg)
CommandCmd(c) ==
    CASE c = "restart" -> "restart"
      [] c = "set_uplinks" -> "set-priority-uplink"
      [] c = "scan" -> "spectrum-scan"
      [] c = "move" -> "move-device"
      [] c = "upgrade_firmware" -> "upgrade"

----------------------------------------------------------------------------
(* Single-request operations *)

\* One operation that hands request rq to the session, receives rs and ends
\* with outcome res.
Op(name, a, rq, rs, res) ==
    /\ pc = "idle"
    /\ lastOp' = name
    /\ arg' = a
    /\ req' = rq
    /\ sent' = 1
    /\ resp' = rs
    /\ result' = res
    /\ jar' = JarAfter(rs)
    /\ hist' = <<>>
    /\ devices' = <<>>
    /\ printed' = <<>>
    /\ UNCHANGED <<pc, header, loginToken, poolVars>>

\* An operation that issues no request.
NoRequestOp(name, a, res) ==
    /\ pc = "idle"
    /\ lastOp' = name
    /\ arg' = a
    /\ req' = NoReq
    /\ sent' = 0
    /\ resp' = NoResp
    /\ result' = res
    /\ hist' = <<>>
    /\ devices' = <<>>
    /\ printed' = <<>>
    /\ UNCHANGED <<pc, header, jar, loginToken, poolVars>>

DoGet ==
    \E rs \in CookieResponses :
        Op("get", "", Request("GET", controller \o SITES_ENDPOINT, NoData, NoData), rs, get(rs))

DoPost ==
    \E rs \in CookieResponses :
        Op("post", "", Request("POST", controller \o SITE_CMD_ENDPOINT(SiteArg), "cmd", "any"),
           rs, post(rs))

DoPut ==
    \E rs \in CookieResponses :
        Op("put", "", Request("PUT", controller \o UPDATE_ENDPOINT(SiteArg, DeviceArg), "name", "any"),
           rs, put(rs))

DoPostNoJson ==
    \E rs \in Responses :
        Op("post_no_json_response", "",
           Request("POST", controller \o SITE_CMD_ENDPOINT(SiteArg), "cmd", "any"),
           rs, post_no_json_response(rs))

DoCommand ==
    \E c \in Commands, rs \in Responses :
        Op(c, "", Request("POST", controller \o CommandEndpoint(c), "cmd", CommandCmd(c)),
           rs, Command(rs))

DoUpdate ==
    \E rs \in Responses :
        Op("update", "", Request("PUT", controller \o UPDATE_ENDPOINT(SiteArg, DeviceArg), "name", "any"),
           rs, update(rs))

\* UnifiSiteApi.get
sites_get ==
    \E rs \in Responses :
        Op("sites.get", "", Request("GET", controller \o SITES_ENDPOINT, NoData, NoData),
           rs, Subscript_data(get(rs)))

\* UnifiUsageApi.get_hourly_usage / get_daily_usage
get_usage ==
    \E g \in {"hourly", "daily"}, rs \in Responses :
        Op("get_usage", g, Request("POST", controller \o USAGE_ENDPOINT(SiteArg, g), "attrs", "tx_rx_time"),
           rs, Subscript_data(post(rs)))

\* UnifiPy.get_devices / get_sites
get_devices ==
    \E rs \in Responses :
        Op("get_devices", "", Request("GET", controller \o ENDPOINT(SiteArg), NoData, NoData),
           rs, Get_data(get(rs)))

get_sites ==
    \E rs \in Responses :
        Op("get_sites", "", Request("GET", controller \o SITES_ENDPOINT, NoData, NoData),
           rs, Get_data(get(rs)))

----------------------------------------------------------------------------
(* Configuration setters and admin management (UnifiPy) *)

\* set_device_alias builds controller + path and passes it to put, which
\* prepends controller again.
set_device_alias ==
    \E rs \in Responses :
        LET endpoint == controller \o UPDATE_ENDPOINT(SiteArg, DeviceArg) IN
        Op("set_device_alias", "", Request("PUT", controller \o endpoint, "name", "alias"),
           rs, put(rs))

set_radio_config ==
    \E rs \in Responses :
        LET endpoint == controller \o UPDATE_ENDPOINT(SiteArg, DeviceArg) IN
        Op("set_radio_config", "", Request("PUT", endpoint, "config", "any"), rs, raw(rs))

None == "None"
BandSteeringInputs == {"prefer_5g", "balanced", None, "equal", "off", ""}

BandSteeringData_mut(setting) ==
    IF setting = "prefer_5g" THEN "prefer_5g"
    ELSE IF setting = "balanced" THEN "balanced"
    ELSE IF setting = None THEN "equal"
    ELSE NoData

\* the if/elif chain of set_band_steering_mode: the "bandsteering_mode" to send
BandSteeringData(setting) ==
    IF setting = "prefer_5g" THEN "prefer_5g"
    ELSE IF setting = "balanced" THEN "equal"
    ELSE IF setting = None THEN "equal"
    ELSE NoData

set_band_steering_mode ==
    \E setting \in BandSteeringInputs :
        LET data == BandSteeringData(setting)
            endpoint == UPDATE_ENDPOINT(SiteArg, DeviceArg) IN
        IF data # NoData
        THEN \E rs \in Responses :
                Op("set_band_steering_mode", setting,
                   Request("PUT", controller \o endpoint, "bandsteering_mode", data), rs, raw(rs))
        ELSE NoRequestOp("set_band_steering_mode", setting, ReturnNone)

set_meshing ==
    \E mesh \in {"True", "False"}, rs \in Responses :
        LET endpoint == controller \o UPDATE_ENDPOINT(SiteArg, DeviceArg) IN
        Op("set_meshing", mesh, Request("PUT", endpoint, "mesh_sta_vap_enabled", mesh), rs, raw(rs))

\* get_admins hands the bare path to the session, which rejects a URL
\* without a scheme before anything is sent.
get_admins ==
    /\ pc = "idle"
    /\ lastOp' = "get_admins"
    /\ arg' = ""
    /\ req' = Request("GET", ADMIN_ENDPOINT, NoData, NoData)
    /\ sent' = 1
    /\ resp' = NoResp
    /\ result' = Raise("MissingSchema")
    /\ hist' = <<>>
    /\ devices' = <<>>
    /\ printed' = <<>>
    /\ UNCHANGED <<pc, header, jar, loginToken, poolVars>>

remove_admin ==
    \E admin_id \in {"", "admin1"}, remove \in BOOLEAN :
        IF admin_id # "" /\ remove
        THEN \E rs \in Responses :
                Op("remove_admin", admin_id,
                   Request("POST", controller \o SITE_CMD_ENDPOINT(SiteArg), "cmd", "revoke-admin"),
                   rs, post(rs))
        ELSE NoRequestOp("remove_admin", admin_id, ReturnNone)

\* set_perms and sitemgr_post
sitemgr_post ==
    \E n \in {"set_perms", "sitemgr_post"}, rs \in Responses :
        Op(n, "", Request("POST", controller \o SITE_CMD_ENDPOINT(SiteArg), "cmd", "any"),
           rs, post(rs))

----------------------------------------------------------------------------
(* Construction and login (retried) *)

stop_max_attempt_number == 3

\* UnifiPy(...): a fresh session, then login()
Construct ==
    /\ pc \in {"new", "dead"}
    /\ pc' = "ctor_login"
    /\ header' = NoToken
    /\ jar' = NoToken
    /\ loginToken' = NoToken
    /\ lastOp' = "login"
    /\ arg' = ""
    /\ req' = NoReq
    /\ sent' = 0
    /\ resp' = NoResp
    /\ result' = NoResult
    /\ hist' = <<>>
    /\ devices' = <<>>
    /\ printed' = <<>>
    /\ UNCHANGED poolVars

\* login() called on a constructed client
LoginCall ==
    /\ pc = "idle"
    /\ pc' = "login"
    /\ lastOp' = "login"
    /\ arg' = ""
    /\ req' = NoReq
    /\ sent' = 0
    /\ resp' = NoResp
    /\ result' = NoResult
    /\ hist' = <<>>
    /\ devices' = <<>>
    /\ printed' = <<>>
    /\ UNCHANGED <<sessionVars, poolVars>>

\* the body of login() on response rs, with the cookie jar jr after rs:
\* post, then session.cookies["csrf_token"]
login(rs, jr) ==
    LET p == post(rs) IN
    IF p.kind = "raise" THEN p
    ELSE IF jr = NoToken THEN Raise("KeyError")
    ELSE ReturnNone

\* stops after the attempt past the maximum
Retry_mut(o, n) ==
    IF o.kind = "return" THEN "return"
    ELSE IF n > stop_max_attempt_number THEN "raise"
    ELSE "retry"

\* what the retry decorator does after an attempt with outcome o, the n-th
\* attempt of the call: "return", "retry" or "raise"
Retry(o, n) ==
    IF o.kind = "return" THEN "return"
    ELSE IF n >= stop_max_attempt_number THEN "raise"
    ELSE "retry"

Tag(o) == IF o.kind = "return" THEN "ok" ELSE o.exc

\* session.headers["X-Csrf-Token"] = session.cookies["csrf_token"]
X_Csrf_Token_mut(jr) == NoToken
X_Csrf_Token(jr) == jr

\* one attempt of login()
LoginAttempt ==
    \E rs \in CookieResponses :
        LET jr == JarAfter(rs)
            o == login(rs, jr)
            d == Retry(o, Len(hist) + 1) IN
        /\ pc \in {"ctor_login", "login"}
        /\ req' = Request("POST", controller \o ENDPOINT_LOGIN, "username", "password")
        /\ sent' = sent + 1
        /\ resp' = rs
        /\ jar' = jr
        /\ hist' = Append(hist, Tag(o))
        /\ header' = IF d = "return" THEN X_Csrf_Token(jr) ELSE header
        /\ loginToken' = IF d = "return" THEN jr ELSE loginToken
        /\ result' = IF d = "retry" THEN NoResult ELSE o
        /\ pc' = CASE d = "retry" -> pc
                   [] d = "return" -> "idle"
                   [] d = "raise" -> IF pc = "ctor_login" THEN "dead" ELSE "idle"
        /\ UNCHANGED <<lastOp, arg, poolVars, devices, printed>>

----------------------------------------------------------------------------
(* Device enumeration (UnifiDeviceApi.get, retried) *)

PoolWidth == 8

SiteName(i) == "site" \o ToString(i)
Device(site, i) == site \o "/" \o ToString(i)
DeviceList(site, k) == [i \in 1..k |-> Device(site, i)]

ReturnDevices == [kind |-> "return", ok |-> FALSE, msg |-> "devices", exc |-> "", body |-> NotJson]

\* the body of get(site_name) for a site name, on response rs
devices_get_site(rs) ==
    LET p == Subscript_data(get(rs)) IN
    IF p.kind = "raise" THEN p ELSE ReturnDevices

\* devices.get(site_name = SiteArg) called
ListOneCall ==
    /\ pc = "idle"
    /\ pc' = "list_one"
    /\ lastOp' = "devices.get"
    /\ arg' = SiteArg
    /\ req' = NoReq
    /\ sent' = 0
    /\ resp' = NoResp
    /\ result' = NoResult
    /\ hist' = <<>>
    /\ devices' = <<>>
    /\ printed' = <<>>
    /\ UNCHANGED <<sessionVars, poolVars>>

\* one attempt of devices.get(site_name = SiteArg)
ListOneAttempt ==
    \E rs \in Responses, k \in 0..MaxDevs :
        LET o == devices_get_site(rs)
            d == Retry(o, Len(hist) + 1) IN
        /\ pc = "list_one"
        /\ o.kind = "raise" => k = 0
        /\ req' = Request("GET", controller \o ENDPOINT(SiteArg), NoData, NoData)
        /\ sent' = sent + 1
        /\ resp' = rs
        /\ jar' = JarAfter(rs)
        /\ hist' = Append(hist, Tag(o))
        /\ devices' = IF d = "return" THEN DeviceList(SiteArg, k) ELSE <<>>
        /\ result' = IF d = "retry" THEN NoResult ELSE o
        /\ pc' = IF d = "retry" THEN pc ELSE "idle"
        /\ UNCHANGED <<header, loginToken, lastOp, arg, outer, sitesReqs, sitesFailed,
                       siteNames, att, st, got, devReqs, everOk, printed>>

\* Responses of the controller to the requests of the all-sites enumeration:
\* one per way get(...)["data"] can end.
ListResponses ==
    {r \in Responses : r.status # 201 /\ r.body \in {NotJson} \cup {JsonObject("absent", "absent", d) : d \in BOOLEAN}}

Worker0 == [i \in 1..MaxSites |-> 0]
WorkerTodo == [i \in 1..MaxSites |-> "todo"]
WorkerNone == [i \in 1..MaxSites |-> <<>>]

\* devices.get() called with no site name
ListAllCall ==
    /\ pc = "idle"
    /\ pc' = "list_sites"
    /\ lastOp' = "devices.get_all"
    /\ arg' = ""
    /\ req' = NoReq
    /\ sent' = 0
    /\ resp' = NoResp
    /\ result' = NoResult
    /\ hist' = <<>>
    /\ outer' = 1
    /\ sitesReqs' = 0
    /\ sitesFailed' = FALSE
    /\ siteNames' = <<>>
    /\ att' = Worker0
    /\ st' = WorkerTodo
    /\ got' = WorkerNone
    /\ devReqs' = Worker0
    /\ everOk' = [i \in 1..MaxSites |-> FALSE]
    /\ devices' = <<>>
    /\ printed' = <<>>
    /\ UNCHANGED sessionVars

\* the attempt of the outer call ended with exception o: the retry decorator
\* calls get() again or raises o to the caller
OuterFailed(o) ==
    LET d == Retry(o, outer) IN
    /\ outer' = IF d = "retry" THEN outer + 1 ELSE outer
    /\ pc' = IF d = "retry" THEN "list_sites" ELSE "idle"
    /\ result' = IF d = "retry" THEN NoResult ELSE o
    /\ hist' = <<>>
    /\ devices' = <<>>

\* sites = self.unifipy.sites.get(); site_names = [site.name for site in sites]
ListSites ==
    \E rs \in ListResponses, n \in 0..MaxSites :
        LET o == Subscript_data(get(rs)) IN
        /\ pc = "list_sites"
        /\ o.kind = "raise" => n = 0
        /\ req' = Request("GET", controller \o SITES_ENDPOINT, NoData, NoData)
        /\ sent' = sent + 1
        /\ sitesReqs' = sitesReqs + 1
        /\ att' = Worker0
        /\ st' = WorkerTodo
        /\ got' = WorkerNone
        /\ IF o.kind = "return"
           THEN /\ siteNames' = [i \in 1..n |-> SiteName(i)]
                /\ pc' = "list_pool"
                /\ UNCHANGED <<outer, result, hist, devices, sitesFailed>>
           ELSE /\ siteNames' = <<>>
                /\ sitesFailed' = TRUE
                /\ OuterFailed(o)
        /\ UNCHANGED <<sessionVars, lastOp, arg, resp, devReqs, everOk, printed>>

Running == {i \in 1..Len(siteNames) : st[i] = "todo" /\ att[i] > 0}

\* one attempt of a pool worker's get(site_name) for site i; the worker holds
\* a copy of the client, and its call is retried by the same decorator
Worker(i) ==
    \E rs \in ListResponses, k \in 0..MaxDevs :
        LET o == devices_get_site(rs)
            d == Retry(o, att[i] + 1) IN
        /\ pc = "list_pool"
        /\ i \in 1..Len(siteNames)
        /\ st[i] = "todo"
        /\ att[i] > 0 \/ Cardinality(Running) < PoolWidth
        /\ o.kind = "raise" => k = 0
        /\ att' = [att EXCEPT ![i] = IF d = "retry" THEN @ + 1 ELSE 0]
        /\ devReqs' = [devReqs EXCEPT ![i] = IF everOk[i] \/ o.kind = "return" THEN 0 ELSE @ + 1]
        /\ everOk' = [everOk EXCEPT ![i] = @ \/ o.kind = "return"]
        /\ st' = [st EXCEPT ![i] = CASE d = "return" -> "ok"
                                     [] d = "retry" -> "todo"
                                     [] d = "raise" -> "failed"]
        /\ got' = [got EXCEPT ![i] = IF d = "return" THEN DeviceList(siteNames[i], k) ELSE <<>>]
        \* pool.map keeps the exception of the first job that failed
        /\ hist' = IF d = "raise" /\ hist = <<>> THEN <<o.exc>> ELSE hist
        /\ UNCHANGED <<pc, sessionVars, lastOp, arg, req, sent, resp, result, outer, sitesReqs,
                       sitesFailed, siteNames, devices, printed>>

\* devices = x in place of devices += x
Concat_mut(lists, n) == IF n = 0 THEN <<>> ELSE lists[n]

RECURSIVE Concat(_, _)
\* for x in device_lists: devices += x
Concat(lists, n) == IF n = 0 THEN <<>> ELSE Concat(lists, n - 1) \o lists[n]

AllDone == \A i \in 1..Len(siteNames) : st[i] # "todo"
AllOk == \A i \in 1..Len(siteNames) : st[i] = "ok"

\* pool.map returns once every job is done: the lists in the order of
\* site_names when all succeeded
JoinReturn ==
    /\ pc = "list_pool"
    /\ AllDone /\ AllOk
    /\ devices' = Concat(got, Len(siteNames))
    /\ result' = ReturnDevices
    /\ pc' = "idle"
    /\ UNCHANGED <<sessionVars, lastOp, arg, req, sent, resp, hist, outer, sitesReqs,
                   sitesFailed, siteNames, att, st, got, devReqs, everOk, printed>>

\* pool.map raises the first job's exception inside the outer get()
JoinRaise ==
    /\ pc = "list_pool"
    /\ AllDone /\ ~AllOk
    /\ OuterFailed(Raise(hist[1]))
    /\ UNCHANGED <<sessionVars, lastOp, arg, req, sent, resp, sitesReqs,
                   sitesFailed, siteNames, att, st, got, devReqs, everOk, printed>>

----------------------------------------------------------------------------
(* The usage report of fetch_usage.py: the loops over daily and hourly usage *)

MACs == {"aa:bb:cc:dd:ee:ff", "11:22:33:44:55:66"}
NameOf(mac) == "ap-" \o mac

\* usage reports of at most n records; a record is the MAC of its ap
Reports(n) == UNION {[1..m -> MACs] : m \in 0..n}

RECURSIVE JoinLoop(_, _, _)
\* for x in usage: device = devices_by_mac.get(ap); print(..., device.name, ...)
\* devices_by_mac is given by its key set; the loop ends with the lines
\* printed and its outcome
JoinLoop(usage, devices_by_mac, out) ==
    IF usage = <<>> THEN [printed |-> out, outcome |-> ReturnNone]
    ELSE LET ap == Head(usage) IN
         IF ap \in devices_by_mac
         THEN JoinLoop(Tail(usage), devices_by_mac, Append(out, <<ap, NameOf(ap)>>))
         ELSE [printed |-> out, outcome |-> Raise("AttributeError")]

fetch_usage ==
    \E g \in {"daily", "hourly"}, devices_by_mac \in SUBSET MACs, usage \in Reports(MaxRecords) :
        LET j == JoinLoop(usage, devices_by_mac, <<>>) IN
        /\ pc = "idle"
        /\ lastOp' = "fetch_usage"
        /\ arg' = g
        /\ req' = NoReq
        /\ sent' = 0
        /\ resp' = NoResp
        /\ result' = j.outcome
        /\ printed' = j.printed
        /\ hist' = <<>>
        /\ devices' = <<>>
        /\ UNCHANGED <<pc, sessionVars, poolVars>>

----------------------------------------------------------------------------
(* Specifications *)

Init ==
    /\ pc = "new"
    /\ header = NoToken
    /\ jar = NoToken
    /\ loginToken = NoToken
    /\ lastOp = ""
    /\ arg = ""
    /\ req = NoReq
    /\ sent = 0
    /\ resp = NoResp
    /\ result = NoResult
    /\ hist = <<>>
    /\ outer = 1
    /\ sitesReqs = 0
    /\ sitesFailed = FALSE
    /\ siteNames = <<>>
    /\ att = Worker0
    /\ st = WorkerTodo
    /\ got = WorkerNone
    /\ devReqs = Worker0
    /\ everOk = [i \in 1..MaxSites |-> FALSE]
    /\ devices = <<>>
    /\ printed = <<>>

Next ==
    \/ Construct
    \/ LoginCall
    \/ LoginAttempt
    \/ DoGet
    \/ DoPost
    \/ DoPut
    \/ DoPostNoJson
    \/ DoCommand
    \/ DoUpdate
    \/ sites_get
    \/ get_usage
    \/ get_devices
    \/ get_sites
    \/ set_device_alias
    \/ set_radio_config
    \/ set_band_steering_mode
    \/ set_meshing
    \/ get_admins
    \/ remove_admin
    \/ sitemgr_post
    \/ ListOneCall
    \/ ListOneAttempt
    \/ fetch_usage

Spec == Init /\ [][Next]_vars

\* The all-sites enumeration on a client whose construction succeeded.
InitList ==
    /\ pc = "idle"
    /\ header \in Tokens
    /\ jar = header
    /\ loginToken = header
    /\ lastOp = "login"
    /\ arg = ""
    /\ req = NoReq
    /\ sent = 0
    /\ resp = NoResp
    /\ result = ReturnNone
    /\ hist = <<>>
    /\ outer = 1
    /\ sitesReqs = 0
    /\ sitesFailed = FALSE
    /\ siteNames = <<>>
    /\ att = Worker0
    /\ st = WorkerTodo
    /\ got = WorkerNone
    /\ devReqs = Worker0
    /\ everOk = [i \in 1..MaxSites |-> FALSE]
    /\ devices = <<>>
    /\ printed = <<>>

NextList ==
    \/ ListAllCall
    \/ ListSites
    \/ \E i \in 1..MaxSites : Worker(i)
    \/ JoinReturn
    \/ JoinRaise

SpecList == InitList /\ [][NextList]_vars

----------------------------------------------------------------------------
(* Properties *)

EnvelopeOk(b) == b.json /\ b.type = "object" /\ b.meta = "object" /\ b.rc = "ok"

\* an object with rc = "ok", with another rc, with a meta without rc, or
\* without meta
Envelope(b) == b.json /\ b.type = "object" /\ b.meta \in {"absent", "object"}

\* C1 (as stated): restart, set_uplinks, scan, move and upgrade_firmware
\* return (False, "Problem communicating with the controller") when the
\* request failed (network error or a status that is not the success
\* status), (True, "") when the response envelope has meta.rc = "ok", and
\* (False, "Unknown Error") when rc differs from "ok" or meta is missing.
C1_AsStated ==
    (lastOp \in Commands /\ (resp.net \/ resp.status # 200 \/ Envelope(resp.body))) =>
        IF resp.net \/ resp.status # 200 THEN result = ReturnPair(FALSE, Problem)
        ELSE IF EnvelopeOk(resp.body) THEN result = ReturnPair(TRUE, "")
        ELSE result = ReturnPair(FALSE, Unknown)

\* C2 (as stated): update returns (False, "Problem communicating with the
\* controller") when the PUT fails with a status that is not the success
\* status, (True, "") when meta.rc is "ok", and (False, "Unknown Error") for
\* any other parsed JSON object, one without meta included.
C2_AsStated ==
    (lastOp = "update" /\ ~resp.net) =>
        IF resp.status # 200 THEN result = ReturnPair(FALSE, Problem)
        ELSE (resp.body.json /\ resp.body.type = "object") =>
                IF EnvelopeOk(resp.body) THEN result = ReturnPair(TRUE, "")
                ELSE result = ReturnPair(FALSE, Unknown)

LoginOver == lastOp = "login" /\ pc \in {"idle", "dead"}
Failures == {"UnifiPostException", "UnifiFetchException", "KeyError", "RequestException"}
FailedTwiceThenOk == Len(hist) = 3 /\ hist[1] \in Failures /\ hist[2] \in Failures /\ hist[3] = "ok"
FailedThrice == Len(hist) = 3 /\ \A i \in 1..3 : hist[i] \in Failures

\* C3 (as stated): a login that fails twice and then succeeds ends
\* authenticated after exactly 3 login requests; a login that fails 3 times
\* makes no fourth attempt and raises AuthError.
C3_AsStated ==
    lastOp = "login" =>
        /\ Len(hist) <= 3 /\ sent = Len(hist)
        /\ (LoginOver /\ FailedTwiceThenOk) =>
                (result = ReturnNone /\ header # NoToken /\ header = jar /\ sent = 3)
        /\ (LoginOver /\ result.kind = "raise") => (FailedThrice /\ result.exc = "AuthError")

\* C3 (amended): a login that fails twice and then succeeds ends
\* authenticated after exactly 3 login requests; a login that fails 3 times
\* makes no fourth attempt and raises the error of its third attempt (the
\* write transport error, the decode error, KeyError for a missing cookie or
\* the network error), and it raises in no other case.
C3_Amended ==
    lastOp = "login" =>
        /\ Len(hist) <= 3 /\ sent = Len(hist)
        /\ (LoginOver /\ FailedTwiceThenOk) =>
                (result = ReturnNone /\ header # NoToken /\ header = jar /\ sent = 3)
        /\ (LoginOver /\ FailedThrice) => (result = Raise(hist[3]) /\ sent = 3)
        /\ (LoginOver /\ result.kind = "raise") => FailedThrice

C3_Witness ==
    /\ LoginOver /\ FailedThrice
    /\ result = Raise("KeyError")
    /\ hist[1] = "UnifiPostException"

LoginRequest == req.url = controller \o ENDPOINT_LOGIN

C4_State ==
    /\ header = loginToken
    /\ (req # NoReq /\ ~LoginRequest) => req.hdr = loginToken

C4_Step ==
    /\ header' # header => (lastOp' = "login" /\ result' = ReturnNone /\ header' = jar')
    /\ (lastOp' = "login" /\ result' = ReturnNone /\ result = NoResult /\ resp'.cookie # NoToken)
            => header' = resp'.cookie

\* C4: after login() succeeds on a response carrying CSRF cookie t, every
\* later request of the session carries t as its CSRF header until the next
\* successful login(), and only login() changes the header.
C4_Theorem == [](C4_State) /\ [][C4_Step]_vars

C4_Witness ==
    /\ lastOp = "update" /\ req.verb = "PUT"
    /\ req.hdr = "t2" /\ jar = "t1" /\ loginToken = "t2"

RECURSIVE Count(_, _)
Count(seq, x) ==
    IF seq = <<>> THEN 0 ELSE (IF Head(seq) = x THEN 1 ELSE 0) + Count(Tail(seq), x)

RECURSIVE TotalLen(_, _)
TotalLen(lists, n) == IF n = 0 THEN 0 ELSE TotalLen(lists, n - 1) + Len(lists[n])

ListReturned == lastOp = "devices.get_all" /\ pc = "idle" /\ result.kind = "return"

\* C5: devices.get() with no site returns, once every per-site fetch has
\* completed, exactly the devices of all per-site lists: each once, none
\* dropped, none added.
C5_Theorem ==
    ListReturned =>
        /\ \A i \in 1..Len(siteNames) : st[i] = "ok"
        /\ \A i \in 1..Len(siteNames) : \A j \in 1..Len(got[i]) : Count(devices, got[i][j]) = 1
        /\ Len(devices) = TotalLen(got, Len(siteNames))

C5_Witness ==
    /\ ListReturned
    /\ Len(siteNames) = 2
    /\ Len(got[1]) = 1 /\ Len(got[2]) = 1
    /\ Len(devices) = 2
    /\ devices[1] = got[1][1] /\ devices[2] = got[2][1]
    /\ outer = 2

Is2xx(status) == status \in 200..299
VerbOps == {"get", "post", "put"}
TransportError(op) == IF op = "get" THEN "UnifiGetException" ELSE "UnifiPostException"

\* C6 (as stated): for get, post and put, a non-2xx response raises the
\* verb's transport error, a 2xx response with an invalid JSON body raises
\* the decode error, and every 2xx response with a valid JSON body returns
\* the parsed body.
C6_AsStated ==
    (lastOp \in VerbOps /\ ~resp.net) =>
        IF ~Is2xx(resp.status) THEN result = Raise(TransportError(lastOp))
        ELSE IF ~resp.body.json THEN result = Raise("UnifiFetchException")
        ELSE result = Return(resp.body)

\* C6 (amended): for get, post and put, a response whose status is not 200
\* raises the verb's transport error (also a 2xx status such as 201), a 200
\* response with an invalid JSON body raises the decode error, and a 200
\* response with a valid JSON body returns the parsed body.
C6_Amended ==
    (lastOp \in VerbOps /\ ~resp.net) =>
        IF resp.status # 200 THEN result = Raise(TransportError(lastOp))
        ELSE IF ~resp.body.json THEN result = Raise("UnifiFetchException")
        ELSE result = Return(resp.body)

C6_Witness ==
    /\ lastOp = "put" /\ ~resp.net
    /\ resp.status = 201 /\ resp.body.json
    /\ result = Raise("UnifiPostException")

\* C7: set_band_steering_mode sends exactly one PUT with bandsteering_mode
\* prefer_5g for "prefer_5g" and equal for "balanced" and for None; for any
\* other input it sends nothing and returns no result.
C7_Theorem ==
    lastOp = "set_band_steering_mode" =>
        IF arg \in {"prefer_5g", "balanced", None}
        THEN /\ sent = 1
             /\ req.verb = "PUT"
             /\ req.url = controller \o UPDATE_ENDPOINT(SiteArg, DeviceArg)
             /\ req.k = "bandsteering_mode"
             /\ req.v = (IF arg = "prefer_5g" THEN "prefer_5g" ELSE "equal")
        ELSE sent = 0 /\ req = NoReq /\ result = ReturnNone

C7_Witness ==
    /\ lastOp = "set_band_steering_mode" /\ arg = "balanced"
    /\ sent = 1 /\ req.v = "equal"

\* C8 (as stated): the join of usage records against the device mapping
\* never ends in an unhandled error.
C8_AsStated ==
    lastOp = "fetch_usage" =>
        /\ result.kind # "raise"
        /\ \A i \in 1..Len(printed) : printed[i][2] = NameOf(printed[i][1])

ExpectedPath ==
    CASE lastOp \in {"get", "sites.get", "get_sites", "devices.get_all"} -> SITES_ENDPOINT
      [] lastOp \in {"post", "post_no_json_response", "remove_admin", "set_perms",
                     "sitemgr_post", "move"} -> SITE_CMD_ENDPOINT(SiteArg)
      [] lastOp \in Commands \ {"move"} -> CMD_ENDPOINT(SiteArg)
      [] lastOp \in {"put", "update", "set_device_alias", "set_radio_config",
                     "set_band_steering_mode", "set_meshing"} -> UPDATE_ENDPOINT(SiteArg, DeviceArg)
      [] lastOp = "get_usage" -> USAGE_ENDPOINT(SiteArg, arg)
      [] lastOp \in {"get_devices", "devices.get"} -> ENDPOINT(SiteArg)
      [] lastOp = "get_admins" -> ADMIN_ENDPOINT
      [] lastOp = "login" -> ENDPOINT_LOGIN
      [] OTHER -> ""

\* C9 (as stated): every request targets the controller base URL followed
\* once by the operation's endpoint path.
C9_AsStated == req # NoReq => req.url = controller \o ExpectedPath

\* C10 (as stated): in one devices.get() with no site whose sites request
\* succeeds, a site whose device fetch fails on every attempt has its device
\* endpoint requested at most 3 times in total, and the sites endpoint is
\* requested once.
C10_AsStated ==
    lastOp = "devices.get_all" =>
        \A i \in 1..MaxSites :
            (~sitesFailed /\ devReqs[i] > 0 /\ ~everOk[i]) => (devReqs[i] <= 3 /\ sitesReqs <= 1)

====
